---- MODULE Spec2Model ----
(***************************************************************************)
(* A model of windows/winobject.py (and windows/utils/pythonutils.py) of   *)
(* PythonForWindows: the handle life cycle of AutoHandle and its           *)
(* subclasses, memory enumeration, the scoped remote allocation, the       *)
(* toolhelp enumerators, the PEB address query, the PEB module walker,     *)
(* threads from handles, thread contexts, the 64-bit PEB of WoW64          *)
(* processes, string reads, cached properties and the handle property      *)
(* read by several threads.                                                *)
(*                                                                         *)
(* Each part of the library has its own specification over its own         *)
(* variables; the variables of the other parts keep their initial value.   *)
(* Exceptions are named by their Python class.                             *)
(***************************************************************************)
EXTENDS Integers, Sequences, FiniteSets, TLC

(***************************************************************************)
(* Bounds of the model.                                                    *)
(***************************************************************************)
\* object slots of the handle model
MaxObjs == 1
\* real handle values the OS hands out: 1..MaxHandle
MaxHandle == 2
\* operations (handle, wait, __del__) on the objects of the handle model
MaxOps == 4

\* regions of an address space, and pages of a region
MaxRegions == 3
MaxRegionSize == 2
\* enumerations of one address space
MaxRuns == 2
\* LDR_DATA_TABLE_ENTRY slots in the target's memory (besides the list head)
MaxEntries == 2
\* entries of a toolhelp snapshot, the ids in them, and enumeration calls
MaxSnap == 2
MaxId == 2
MaxEnums == 2
\* accesses of the peb_addr property
MaxPebAccess == 4
\* reads of the handle of the object _from_handle returned
MaxHandleReads == 2
\* calls of set_context on one thread
MaxSetCalls == 3
\* the chunk read_string / read_wstring read at a time, in byte pairs (the
\* code reads 0x100 bytes), the mapped bytes of the target in pairs, and the
\* calls made on one memory
ChunkPairs == 2
MaxMemPairs == 4
MaxStringReads == 2
\* controller threads sharing one object, and reads of its handle by each
MaxThreads == 2
MaxThreadReads == 2
\* with-blocks of allocated_memory run one after the other
MaxScopes == 2
\* addresses VirtualAlloc(Ex) can return: AllocBase * (1..MaxAllocs)
MaxAllocs == 2

(***************************************************************************)
(* Program constants.                                                      *)
(***************************************************************************)
\* winproxy.GetCurrentProcess(): the pseudo-handle (HANDLE)-1
PseudoProcessHandle == -1
\* winproxy.GetCurrentThread(): the pseudo-handle (HANDLE)-2
PseudoThreadHandle == -2
\* INFINITE (0xFFFFFFFF) as a signed 32-bit value
INFINITE == -1
\* 0XC000000D of query_memory as two 16-bit words
PartialCopyHi == 49152
PartialCopyLo == 13

VARIABLES
    \* ---- handle life cycle (AutoHandle and its subclasses) ----
    kind,        \* kind[o]: the class of object o, "none" before construction
    origin,      \* origin[o]: how o was built: "new", "_from_handle" or "__init__"
    life,        \* life[o]: "unborn", "alive" or "dead" (collected)
    hasHandle,   \* hasHandle[o]: hasattr(o, "_handle")
    handleOf,    \* handleOf[o]: o._handle (0 while unset)
    accesses,    \* accesses[o]: evaluations of the handle property
    getCalls,    \* getCalls[o]: calls of o._get_handle()
    getOk,       \* getOk[o]: calls of o._get_handle() that returned
    lastRet,     \* lastRet[o]: <<v>> when the last handle access returned v
    delCalls,    \* delCalls[o]: runs of o.__del__()
    ops,         \* operations done on the objects so far
    closeCalls,  \* closeCalls[h]: calls of CloseHandle(h)
    kernelWaits, \* kernelWaits[o]: calls of WaitForSingleObject made by o.wait()
    nextHandle,  \* the next handle value the OS hands out
    hop,         \* the last operation: <<name, object, argument>>
    herr         \* the exception the last operation raised, "none" if it returned

hvars == <<kind, origin, life, hasHandle, handleOf, accesses, getCalls, getOk, lastRet,
           delCalls, ops, closeCalls, kernelWaits, nextHandle, hop, herr>>

VARIABLES
    \* ---- memory enumeration (Process.query_memory, Process.memory_state) ----
    mCur,        \* windows.current_process.bitness
    mTarget,     \* self.bitness of the process enumerated
    regions,     \* the address space: the sizes of its regions, from address 0
    ntCode,      \* the NT status NtQueryVirtualMemory_32_to_64 fails with (signed)
    mpc,         \* the generator: "idle", "active" (created or suspended at yield),
                 \* "done" (returned) or "raised"
    maddr,       \* addr of memory_state
    mx,          \* x of memory_state: the region last yielded, <<>> before
    yielded,     \* the regions yielded so far by the running enumeration
    queries,     \* calls of query_memory made by the running enumeration
    merr,        \* the exception that ended the enumeration, "none" otherwise
    runs,        \* enumerations started
    prevRun      \* <<yielded, mpc, merr>> of the previous finished enumeration, or <<>>

mvars == <<mCur, mTarget, regions, ntCode, mpc, maddr, mx, yielded, queries, merr,
           runs, prevRun>>

VARIABLES
    \* ---- PEB module walker (PEB.modules, RemotePEB*.modules) ----
    pCur,        \* windows.current_process.bitness
    pTarget,     \* the bitness of the process whose PEB is walked
    pView,       \* the class of the PEB object
    pSyswow,     \* whether the object is the 64-bit PEB peb_syswow builds
    ldr,         \* PEB.Ldr: 0 (NULL) or the address of PEB_LDR_DATA
    flink,       \* flink[i]: the slot that InMemoryOrderLinks.Flink of slot i points to
    dllBase,     \* dllBase[i]: DllBase of slot i
    ppc,         \* "idle", "walk" (in the while loop), "done" or "raised"
    curDll,      \* current_dll: the address of the entry the loop looks at
    res,         \* res: the addresses of the entries appended (its first WalkCap entries)
    resMore,     \* the parity of the number of entries appended after the first WalkCap
    entryReads,  \* reads of fields of list entries (at most WalkCap are counted)
    perr,        \* the exception modules raised, "none" otherwise
    pret         \* the value modules returned, <<>> before

pvars == <<pCur, pTarget, pView, pSyswow, ldr, flink, dllBase, ppc, curDll, res, resMore, entryReads,
           perr, pret>>

VARIABLES
    \* ---- scoped allocation (Process.allocated_memory) ----
    aKind,       \* the class of the process: "WinProcess" or "CurrentProcess"
    apc,         \* "idle", "body" (inside the with-block) or "exited"
    aAddr,       \* addr of allocated_memory: <<a>> once virtual_alloc returned a
    aSize,       \* the size asked for
    aExit,       \* how the with-block was left: "complete", "raise" or "return"
    aFrees,      \* the addresses VirtualFreeEx was called with in this scope, in order
    mapped,      \* the addresses allocated in the process and not freed
    aerr,        \* the exception that leaves the with statement, "none" otherwise
    scopes       \* with-blocks entered so far

avars == <<aKind, apc, aAddr, aSize, aExit, aFrees, mapped, aerr, scopes>>

VARIABLES
    \* ---- toolhelp enumerators (System.enumerate_processes / enumerate_threads) ----
    eWhat,       \* "processes" or "threads": which enumerator is called
    snapshot,    \* the entries the snapshot holds: a sequence of pids / tids
    epc,         \* "idle", "loop" (after First, before a Next), "done" or "raised"
    ePos,        \* how many entries of the snapshot the kernel has handed out
    entry,       \* process_entry / thread_entry: the buffer the kernel fills
    eres,        \* res / threads: records [alias, val]
    openSnaps,   \* the snapshot handles that are open
    snapCount,   \* snapshot handles created so far
    eerr,        \* the exception the enumerator raised, "none" otherwise
    enums        \* enumerator calls made so far

evars == <<eWhat, snapshot, epc, ePos, entry, eres, openSnaps, snapCount, eerr, enums>>

VARIABLES
    \* ---- PEB address (WinProcess.peb_addr, a fixedpropety) ----
    qCur,        \* windows.current_process.bitness
    qTarget,     \* self.bitness
    qPeb,        \* the PEB address the kernel reports for the process (0: NULL)
    qCache,      \* self._peb_addr: <<v>>, or <<>> while the attribute is not set
    qRet,        \* <<v>> when the last access returned v, <<>> otherwise
    qErr,        \* the exception the last access raised, "none" otherwise
    qQueries,    \* calls of NtQueryInformationProcess (any variant) so far
    qAccesses    \* accesses of peb_addr so far

qvars == <<qCur, qTarget, qPeb, qCache, qRet, qErr, qQueries, qAccesses>>

VARIABLES
    \* ---- thread from a handle (WinThread._from_handle, DeadThread) ----
    fHandle,     \* the handle given to _from_handle
    fTid,        \* the id of the thread the handle refers to
    fSnap,       \* System().threads: the tids of the live threads, in order
    fpc,         \* "idle", "returned" or "raised"
    fCls,        \* class of the object returned: "WinThread", "DeadThread", "none"
    fIdx,        \* index in fSnap of the thread object returned, 0 if none
    fResTid,     \* the tid of the object returned
    fResHandle,  \* its _handle: <<h>>, or <<>> while the attribute is not set
    fOpens,      \* calls of OpenThread so far
    fReads,      \* reads of the handle property of the object returned
    fLastRead,   \* <<h>> when the last read returned h
    fFailed,     \* the call that failed: "GetThreadId", "threads", "repr", "none"
    ferr         \* the exception _from_handle raised, "none" otherwise

fvars == <<fHandle, fTid, fSnap, fpc, fCls, fIdx, fResTid, fResHandle, fOpens, fReads,
           fLastRead, fFailed, ferr>>

VARIABLES
    \* ---- thread context (WinThread.set_context) ----
    sCur,        \* windows.current_process.bitness
    sOwner,      \* self.owner.bitness, 0 when self.owner is None
    sHandle,     \* self.handle
    sCtx,        \* the class of the context passed to the last call, "none" before
    sThunk,      \* the thunk the last call invoked, "none" if it invoked none
    sThunkCalls, \* thunk invocations so far
    sErr,        \* the exception the last call raised, "none" otherwise
    sCalls       \* calls of set_context so far

svars == <<sCur, sOwner, sHandle, sCtx, sThunk, sThunkCalls, sErr, sCalls>>

VARIABLES
    \* ---- 64-bit PEB of a WoW64 process (peb_syswow, a fixedpropety) ----
    wKind,       \* "CurrentProcess" or "WinProcess"
    wCur,        \* windows.current_process.bitness
    wWow,        \* whether the process is a WoW64 process
    wPeb,        \* the address of its 64-bit PEB as the kernel reports it
    wWowCache,   \* self._is_wow_64: <<b>>, or <<>> while the attribute is not set
    wCache,      \* self._peb_syswow: <<view>>, or <<>> while not set
    wRet,        \* <<view>> when the last access returned a view
    wErr,        \* the exception the last access raised, "none" otherwise
    wFailed,     \* the OS call that failed in the last access, "none" otherwise
    wQueries,    \* PEB queries issued so far
    wAccesses    \* accesses of peb_syswow so far

wvars == <<wKind, wCur, wWow, wPeb, wWowCache, wCache, wRet, wErr, wFailed, wQueries,
           wAccesses>>

VARIABLES
    \* ---- string reads (Process.read_string / read_wstring) ----
    rMem,        \* the mapped bytes of the target from address 0; beyond: unmapped
    rFn,         \* the function of the last call, "none" before
    rAddr,       \* its addr argument
    rpc,         \* "idle", "done" (it returned) or "raised"
    rret,        \* <<s>> when it returned s (bytes, or decoded code units)
    rerr,        \* the exception it raised, "none" otherwise
    rChunks,     \* chunk reads the last call issued
    rCalls       \* calls so far

rvars == <<rMem, rFn, rAddr, rpc, rret, rerr, rChunks, rCalls>>

VARIABLES
    \* ---- cached property (fixedpropety applied to WinThread.owner) ----
    oPid,        \* th32OwnerProcessID of the thread
    oProcs,      \* the pids of windows.system.processes at its last enumeration
    oAttr,       \* self._owner: <<v>>, or <<>> while the attribute is not set
    oRet,        \* <<v>> when the last access returned v
    oErr,        \* the exception the last access raised, "none" otherwise
    oComputes,   \* runs of the body of owner so far
    oFirst,      \* <<v>> once a run of the body has returned v: the first such v
    oAccesses    \* accesses of the property so far

ovars == <<oPid, oProcs, oAttr, oRet, oErr, oComputes, oFirst, oAccesses>>

VARIABLES
    \* ---- AutoHandle.handle read by several controller threads ----
    cAttr,       \* self._handle: <<h>>, or <<>> while the attribute is not set
    cpc,         \* cpc[t]: "idle", "open" (before _get_handle), "store" (before
                 \* the assignment), "return" (before return self._handle)
    cLocal,      \* cLocal[t]: the handle _get_handle returned to thread t, 0 if none
    cRet,        \* cRet[t]: <<h>> when the last read of t returned h
    cErr,        \* cErr[t]: the exception the last read of t raised, "none" otherwise
    cOpened,     \* the handles the OS has opened for the object
    cReads       \* cReads[t]: reads of the property thread t has started

cvars == <<cAttr, cpc, cLocal, cRet, cErr, cOpened, cReads>>

vars == <<hvars, mvars, pvars, avars, evars, qvars, fvars, svars, wvars, rvars, ovars, cvars>>

\* the variables each part leaves alone
notHandle == <<mvars, pvars, avars, evars, qvars, fvars, svars, wvars, rvars, ovars, cvars>>
notMem == <<hvars, pvars, avars, evars, qvars, fvars, svars, wvars, rvars, ovars, cvars>>
notPeb == <<hvars, mvars, avars, evars, qvars, fvars, svars, wvars, rvars, ovars, cvars>>
notAlloc == <<hvars, mvars, pvars, evars, qvars, fvars, svars, wvars, rvars, ovars, cvars>>
notEnum == <<hvars, mvars, pvars, avars, qvars, fvars, svars, wvars, rvars, ovars, cvars>>
notPebAddr == <<hvars, mvars, pvars, avars, evars, fvars, svars, wvars, rvars, ovars, cvars>>
notFromHandle == <<hvars, mvars, pvars, avars, evars, qvars, svars, wvars, rvars, ovars, cvars>>
notSetContext == <<hvars, mvars, pvars, avars, evars, qvars, fvars, wvars, rvars, ovars, cvars>>
notSyswow == <<hvars, mvars, pvars, avars, evars, qvars, fvars, svars, rvars, ovars, cvars>>
notString == <<hvars, mvars, pvars, avars, evars, qvars, fvars, svars, wvars, ovars, cvars>>
notCached == <<hvars, mvars, pvars, avars, evars, qvars, fvars, svars, wvars, rvars, cvars>>
notShared == <<hvars, mvars, pvars, avars, evars, qvars, fvars, svars, wvars, rvars, ovars>>

(***************************************************************************)
(* Handle life cycle                                                       *)
(***************************************************************************)
Objs == 1..MaxObjs

\* the classes that own a handle
LazyKinds == {"WinProcess", "WinThread"}
GivenKinds == {"DeadThread", "Token"}
CurrentKinds == {"CurrentProcess", "CurrentThread"}
Kinds == LazyKinds \cup GivenKinds \cup CurrentKinds

PseudoHandles == {PseudoProcessHandle, PseudoThreadHandle}
HandleValues == PseudoHandles \cup (0..MaxHandle)
Timeouts == {0, 1, INFINITE}

InitHandle ==
    /\ kind = [o \in Objs |-> "none"]
    /\ origin = [o \in Objs |-> "none"]
    /\ life = [o \in Objs |-> "unborn"]
    /\ hasHandle = [o \in Objs |-> FALSE]
    /\ handleOf = [o \in Objs |-> 0]
    /\ accesses = [o \in Objs |-> 0]
    /\ getCalls = [o \in Objs |-> 0]
    /\ getOk = [o \in Objs |-> 0]
    /\ lastRet = [o \in Objs |-> <<>>]
    /\ delCalls = [o \in Objs |-> 0]
    /\ ops = 0
    /\ closeCalls = [h \in HandleValues |-> 0]
    /\ kernelWaits = [o \in Objs |-> 0]
    /\ nextHandle = 1
    /\ hop = <<"init", 0, 0>>
    /\ herr = "none"

\* An object without _handle: an entry of a toolhelp enumeration (WinProcess,
\* WinThread) or CurrentProcess() / CurrentThread().
NewObject(o, k) ==
    /\ life[o] = "unborn"
    /\ k \in LazyKinds \cup CurrentKinds
    /\ kind' = [kind EXCEPT ![o] = k]
    /\ life' = [life EXCEPT ![o] = "alive"]
    /\ origin' = [origin EXCEPT ![o] = "new"]
    /\ hop' = <<"new", o, 0>>
    /\ UNCHANGED notHandle
    /\ herr' = "none"
    /\ UNCHANGED <<hasHandle, handleOf, accesses, getCalls, getOk, lastRet, delCalls,
                   ops, closeCalls, kernelWaits, nextHandle>>

\* WinProcess._from_handle(h) / WinThread._from_handle(h) when the snapshot
\* holds the pid / tid of h: the enumerated object gets _handle = h.
\* h is a handle the OS has just handed out (create_thread).
from_handle(o, k) ==
    /\ life[o] = "unborn"
    /\ k \in LazyKinds
    /\ nextHandle <= MaxHandle
    /\ kind' = [kind EXCEPT ![o] = k]
    /\ life' = [life EXCEPT ![o] = "alive"]
    /\ hasHandle' = [hasHandle EXCEPT ![o] = TRUE]
    /\ handleOf' = [handleOf EXCEPT ![o] = nextHandle]
    /\ nextHandle' = nextHandle + 1
    /\ origin' = [origin EXCEPT ![o] = "_from_handle"]
    /\ hop' = <<"_from_handle", o, 0>>
    /\ UNCHANGED notHandle
    /\ herr' = "none"
    /\ UNCHANGED <<accesses, getCalls, getOk, lastRet, delCalls, ops,
                   closeCalls, kernelWaits>>

\* DeadThread(handle, tid) and Token(handle): __init__ stores the handle.
\* The handle is one the OS has just handed out, or 0.
NewWithHandle(o, k, zero) ==
    /\ life[o] = "unborn"
    /\ k \in GivenKinds
    /\ zero \/ nextHandle <= MaxHandle
    /\ kind' = [kind EXCEPT ![o] = k]
    /\ life' = [life EXCEPT ![o] = "alive"]
    /\ hasHandle' = [hasHandle EXCEPT ![o] = TRUE]
    /\ handleOf' = [handleOf EXCEPT ![o] = IF zero THEN 0 ELSE nextHandle]
    /\ nextHandle' = IF zero THEN nextHandle ELSE nextHandle + 1
    /\ origin' = [origin EXCEPT ![o] = "__init__"]
    /\ hop' = <<"__init__", o, 0>>
    /\ UNCHANGED notHandle
    /\ herr' = "none"
    /\ UNCHANGED <<accesses, getCalls, getOk, lastRet, delCalls, ops,
                   closeCalls, kernelWaits>>

\* The outcomes of o._get_handle(): [ok |-> TRUE, val |-> handle] when it
\* returns, [ok |-> FALSE, err |-> class] when it raises.  OpenProcess and
\* OpenThread return a new handle or raise Kernel32Error; GetCurrentProcess and
\* GetCurrentThread return the pseudo-handle; AutoHandle._get_handle is abstract.
get_handle(o) ==
    CASE kind[o] \in LazyKinds ->
            {[ok |-> FALSE, val |-> 0, err |-> "Kernel32Error"]}
            \cup (IF nextHandle <= MaxHandle
                  THEN {[ok |-> TRUE, val |-> nextHandle, err |-> "none"]}
                  ELSE {})
      [] kind[o] = "CurrentProcess" ->
            {[ok |-> TRUE, val |-> PseudoProcessHandle, err |-> "none"]}
      [] kind[o] = "CurrentThread" ->
            {[ok |-> TRUE, val |-> PseudoThreadHandle, err |-> "none"]}
      [] OTHER ->
            {[ok |-> FALSE, val |-> 0, err |-> "NotImplementedError"]}

\* The mutant of HasStoredHandle: the getter forgets the stored handle.
HasStoredHandleNever(o) == FALSE

\* hasattr(self, "_handle") in the handle property
HasStoredHandle(o) == hasHandle[o]

\* The effect of evaluating o.handle on the handle variables; r is the outcome
\* of _get_handle when it is called.
HandleEffect(o, r) ==
    IF HasStoredHandle(o)
    THEN /\ lastRet' = [lastRet EXCEPT ![o] = <<handleOf[o]>>]
         /\ herr' = "none"
         /\ UNCHANGED <<hasHandle, handleOf, getCalls, getOk, nextHandle>>
    ELSE /\ getCalls' = [getCalls EXCEPT ![o] = @ + 1]
         /\ IF r.ok
            THEN /\ hasHandle' = [hasHandle EXCEPT ![o] = TRUE]
                 /\ handleOf' = [handleOf EXCEPT ![o] = r.val]
                 /\ getOk' = [getOk EXCEPT ![o] = @ + 1]
                 /\ lastRet' = [lastRet EXCEPT ![o] = <<r.val>>]
                 /\ nextHandle' = IF r.val = nextHandle THEN nextHandle + 1 ELSE nextHandle
                 /\ herr' = "none"
            ELSE /\ lastRet' = [lastRet EXCEPT ![o] = <<>>]
                 /\ herr' = r.err
                 /\ UNCHANGED <<hasHandle, handleOf, getOk, nextHandle>>

\* AutoHandle.handle: the property, evaluated by a caller
AutoHandle_handle(o) ==
    /\ life[o] = "alive"
    /\ ops < MaxOps
    /\ ops' = ops + 1
    /\ accesses' = [accesses EXCEPT ![o] = @ + 1]
    /\ \E r \in get_handle(o) : HandleEffect(o, r)
    /\ hop' = <<"handle", o, 0>>
    /\ UNCHANGED notHandle
    /\ UNCHANGED <<kind, origin, life, delCalls, closeCalls, kernelWaits>>

\* AutoHandle.wait(timeout): WaitForSingleObject(self.handle, timeout)
AutoHandle_wait(o, timeout) ==
    /\ accesses' = [accesses EXCEPT ![o] = @ + 1]
    /\ \E r \in get_handle(o) :
          /\ HandleEffect(o, r)
          /\ kernelWaits' = [kernelWaits EXCEPT ![o] =
                                IF HasStoredHandle(o) \/ r.ok THEN @ + 1 ELSE @]

\* The mutant of CurrentThread_wait: the inherited AutoHandle.wait.
CurrentThread_wait_inherited(o, timeout) == AutoHandle_wait(o, timeout)

\* CurrentThread.wait(timeout): raise ValueError("wait() on current thread")
CurrentThread_wait(o, timeout) ==
    /\ herr' = "ValueError"
    /\ UNCHANGED <<accesses, hasHandle, handleOf, getCalls, getOk, lastRet,
                   nextHandle, kernelWaits>>

\* CurrentProcess.wait(timeout): raise ValueError("wait() on current thread")
CurrentProcess_wait(o, timeout) ==
    /\ herr' = "ValueError"
    /\ UNCHANGED <<accesses, hasHandle, handleOf, getCalls, getOk, lastRet,
                   nextHandle, kernelWaits>>

\* o.wait(timeout), by the class of o
Wait(o, timeout) ==
    /\ life[o] = "alive"
    /\ ops < MaxOps
    /\ ops' = ops + 1
    /\ CASE kind[o] = "CurrentThread" -> CurrentThread_wait(o, timeout)
         [] kind[o] = "CurrentProcess" -> CurrentProcess_wait(o, timeout)
         [] OTHER -> AutoHandle_wait(o, timeout)
    /\ hop' = <<"wait", o, timeout>>
    /\ UNCHANGED notHandle
    /\ UNCHANGED <<kind, origin, life, delCalls, closeCalls>>

\* AutoHandle.__del__: CloseHandle(_handle) when _handle is set and not 0
AutoHandle_del(o) ==
    IF hasHandle[o] /\ handleOf[o] # 0
    THEN closeCalls' = [closeCalls EXCEPT ![handleOf[o]] = @ + 1]
    ELSE UNCHANGED closeCalls

\* CurrentThread.__del__ and CurrentProcess.__del__: pass
CurrentThread_del(o) == UNCHANGED closeCalls

\* o.__del__(), by the class of o
Del(o) ==
    IF kind[o] \in CurrentKinds THEN CurrentThread_del(o) ELSE AutoHandle_del(o)

\* o.__del__() called as a method: the object stays alive
CallDel(o) ==
    /\ life[o] = "alive"
    /\ ops < MaxOps
    /\ ops' = ops + 1
    /\ delCalls' = [delCalls EXCEPT ![o] = @ + 1]
    /\ Del(o)
    /\ hop' = <<"__del__", o, 0>>
    /\ UNCHANGED notHandle
    /\ herr' = "none"
    /\ UNCHANGED <<kind, origin, life, hasHandle, handleOf, accesses, getCalls, getOk,
                   lastRet, kernelWaits, nextHandle>>

\* The object is collected: the runtime runs __del__ and the object is gone
Collect(o) ==
    /\ life[o] = "alive"
    /\ ops < MaxOps
    /\ ops' = ops + 1
    /\ delCalls' = [delCalls EXCEPT ![o] = @ + 1]
    /\ Del(o)
    /\ life' = [life EXCEPT ![o] = "dead"]
    /\ hop' = <<"collect", o, 0>>
    /\ UNCHANGED notHandle
    /\ herr' = "none"
    /\ UNCHANGED <<kind, origin, hasHandle, handleOf, accesses, getCalls, getOk,
                   lastRet, kernelWaits, nextHandle>>

NextHandle ==
    \/ \E o \in Objs, k \in Kinds : NewObject(o, k)
    \/ \E o \in Objs, k \in Kinds : from_handle(o, k)
    \/ \E o \in Objs, k \in Kinds, zero \in BOOLEAN : NewWithHandle(o, k, zero)
    \/ \E o \in Objs : AutoHandle_handle(o)
    \/ \E o \in Objs, t \in Timeouts : Wait(o, t)
    \/ \E o \in Objs : CallDel(o)
    \/ \E o \in Objs : Collect(o)

IdleHandle == InitHandle

(***************************************************************************)
(* Claims about the handle life cycle                                      *)
(***************************************************************************)
\* the objects that own a real OS handle: a stored, non-zero, non-pseudo value
OwnsHandle(o) ==
    /\ kind[o] \notin CurrentKinds
    /\ hasHandle[o]
    /\ handleOf[o] # 0

\* C1 (as claimed): CloseHandle is called exactly once for each non-zero handle
\* the library owns and never for a pseudo-handle: no handle is ever closed
\* twice (a second destruction of an object is a no-op), and a collected
\* object's handle has been closed exactly once.
C1_CloseExactlyOnce ==
    /\ \A h \in HandleValues : closeCalls[h] <= 1
    /\ \A h \in PseudoHandles \cup {0} : closeCalls[h] = 0
    /\ \A o \in Objs : life[o] = "dead" /\ OwnsHandle(o) => closeCalls[handleOf[o]] = 1

\* C2 (as claimed): _get_handle is invoked at most once per object.
C2_GetHandleAtMostOnce == \A o \in Objs : getCalls[o] <= 1

\* C2 (amended): no _get_handle before the first access of the handle
\* property; _get_handle returns at most once per object and is never called
\* once a handle is stored (after an open that raised, the next access calls it
\* again); a stored handle never changes and is what every access returns; an
\* object built by _from_handle, DeadThread() or Token() never calls _get_handle.
C2_LazyHandle ==
    /\ [](\A o \in Objs :
            /\ accesses[o] = 0 => getCalls[o] = 0
            /\ getOk[o] <= 1
            /\ getOk[o] = 1 => hasHandle[o]
            /\ lastRet[o] # <<>> => hasHandle[o] /\ lastRet[o] = <<handleOf[o]>>
            /\ origin[o] \in {"_from_handle", "__init__"} => getCalls[o] = 0)
    /\ [][\A o \in Objs :
            hasHandle[o] => /\ hasHandle'[o]
                            /\ handleOf'[o] = handleOf[o]
                            /\ getCalls'[o] = getCalls[o]]_vars

\* C2 witness: a handle was opened on an access and a later access returned it
C2_Witness ==
    \E o \in Objs :
        /\ origin[o] = "new"
        /\ accesses[o] >= 2
        /\ getOk[o] = 1
        /\ hop = <<"handle", o, 0>>
        /\ lastRet[o] = <<handleOf[o]>>

\* C3: CurrentThread.wait(timeout) raises ValueError for every timeout, calls
\* WaitForSingleObject never and leaves the handle as it was (not acquired).
C3_CurrentThreadWaitRaises ==
    /\ [](\A o \in Objs : kind[o] = "CurrentThread" => kernelWaits[o] = 0)
    /\ [][\A o \in Objs, t \in Timeouts :
            (hop' = <<"wait", o, t>> /\ ops' # ops /\ kind[o] = "CurrentThread")
            => /\ herr' = "ValueError"
               /\ kernelWaits' = kernelWaits
               /\ hasHandle' = hasHandle
               /\ handleOf' = handleOf
               /\ getCalls' = getCalls
               /\ accesses' = accesses]_vars

\* C3 witness: wait(INFINITE) was called on a CurrentThread without a handle
C3_Witness ==
    \E o \in Objs :
        /\ kind[o] = "CurrentThread"
        /\ hop = <<"wait", o, INFINITE>>
        /\ herr = "ValueError"
        /\ ~hasHandle[o]

Bitness == {32, 64}

(***************************************************************************)
(* PEB module walker                                                       *)
(***************************************************************************)
\* slot 0 is the list head seen as an entry (the LIST_ENTRY of PEB_LDR_DATA);
\* slots 1..MaxEntries are LDR_DATA_TABLE_ENTRY structures
Slots == 0..MaxEntries

\* how many entries of res the model keeps: more than any list without a cycle
WalkCap == MaxEntries + 2

\* the address of slot i in the target
EntryBase(i) == 64 * (i + 1)

\* the width of the PEB and loader list the object reads: the 64-bit ones of
\* a WoW64 process for peb_syswow, else those of the target's bitness
PebWidth == IF pSyswow THEN 64 ELSE pTarget

\* the address of InMemoryOrderLinks of slot i: two pointers of that width
\* past the base of the entry
LinkAddr(i) == EntryBase(i) + 2 * (PebWidth \div 8)

\* WinProcess.peb: the class of the remote view, by the two bitnesses
peb(cur, target) ==
    IF cur = 32 /\ target = 64 THEN "RemotePEB64"
    ELSE IF cur = 64 /\ target = 32 THEN "RemotePEB32"
    ELSE "RemotePEB"

\* the width of the structures a view class reads, for a controller of
\* bitness cur: PEB and RemotePEB are laid out with the controller's pointers
ViewWidth(view, cur) ==
    CASE view = "PEB" -> cur
      [] view = "RemotePEB" -> cur
      [] view = "RemotePEB64" -> 64
      [] view = "RemotePEB32" -> 32

\* windows.syswow64.get_current_process_syswow_peb(): the 64-bit PEB of the
\* current (WoW64) process, read through the 64-bit accessor
get_current_process_syswow_peb(addr) == [cls |-> "RemotePEB64", addr |-> <<addr>>]

\* the view peb_syswow builds once the process is known to be WoW64 and the
\* query has succeeded. WinProcess: RemotePEB at ctypes.cast(...).value (None
\* for NULL) in a 64-bit controller, RemotePEB64 at the unpacked integer in a
\* 32-bit one.
SyswowView(k, cur, addr) ==
    IF k = "CurrentProcess" THEN get_current_process_syswow_peb(addr)
    ELSE IF cur = 64
         THEN [cls |-> "RemotePEB", addr |-> IF addr = 0 THEN <<>> ELSE <<addr>>]
         ELSE [cls |-> "RemotePEB64", addr |-> <<addr>>]

\* every view subtracts the pointer size of the controller
ViewPtrSizeOfController(view) == pCur \div 8

\* the size of a pointer the view subtracts twice from a Flink value:
\* sizeof(PVOID), sizeof(ctypes.c_void_p), sizeof(c_void_p64), sizeof(c_void_p32)
ViewPtrSize(view) ==
    CASE view = "PEB" -> pCur \div 8
      [] view = "RemotePEB" -> pCur \div 8
      [] view = "RemotePEB64" -> 8
      [] view = "RemotePEB32" -> 4

\* LIST_ENTRY_PTR.TO_LDR_ENTRY / ptr_flink_to_remote_module: the address of the
\* entry whose InMemoryOrderLinks the pointer points to
ptr_flink_to_remote_module(view, ptr_value) == ptr_value - ViewPtrSize(view) * 2

\* the slot at an address (an address of the walk is always the base of a slot
\* when the width of the view is the width of the target)
SlotAt(addr) == CHOOSE i \in Slots : EntryBase(i) = addr

InitPebState ==
    /\ ppc = "idle"
    /\ curDll = 0
    /\ res = <<>>
    /\ resMore = 0
    /\ entryReads = 0
    /\ perr = "none"
    /\ pret = <<>>

\* A PEB of the current process (PEB, the target is the controller), of
\* another process (the view WinProcess.peb builds) or the 64-bit PEB of a
\* WoW64 process (the view peb_syswow builds; the current process is WoW64
\* only when it is 32-bit), over any content of the loader list, well formed
\* or not.
InitPeb ==
    /\ pCur \in Bitness
    /\ pTarget \in Bitness
    /\ \/ pView = "PEB" /\ pTarget = pCur /\ pSyswow = FALSE
       \/ pView = peb(pCur, pTarget) /\ pSyswow = FALSE
       \/ /\ pSyswow = TRUE
          /\ pTarget = 32
          /\ \E a \in {0, 8192} :
                \/ pView = SyswowView("WinProcess", pCur, a).cls
                \/ pCur = 32 /\ pView = SyswowView("CurrentProcess", pCur, a).cls
    /\ ldr \in {0, 32}
    /\ flink \in [Slots -> Slots]
    /\ dllBase \in [Slots -> {0, 4096}]
    /\ InitPebState

IdlePeb ==
    /\ pCur = 32
    /\ pTarget = 32
    /\ pView = "PEB"
    /\ pSyswow = FALSE
    /\ ldr = 0
    /\ flink = [i \in Slots |-> 0]
    /\ dllBase = [i \in Slots |-> 0]
    /\ InitPebState

\* The mutant of LdrIsNull: the remote views miss the test of Ldr.
LdrIsNullNever(view) == FALSE

\* RemotePEB*.modules: "if not self.Ldr.value: raise ValueError";
\* PEB.modules: self.Ldr.contents of a NULL ctypes pointer raises ValueError
LdrIsNull(view) == ldr = 0

\* modules, up to the first test of the while loop: Ldr is dereferenced, the
\* Flink of the list head is read and turned into the first current_dll
modules_start ==
    /\ ppc = "idle"
    /\ IF LdrIsNull(pView)
       THEN /\ ppc' = "raised"
            /\ perr' = "ValueError"
            /\ UNCHANGED curDll
       ELSE /\ ppc' = "walk"
            /\ curDll' = ptr_flink_to_remote_module(pView, LinkAddr(flink[0]))
            /\ UNCHANGED perr
    /\ UNCHANGED <<pCur, pTarget, pView, pSyswow, ldr, flink, dllBase, res, resMore, entryReads, pret>>
    /\ UNCHANGED notPeb

\* the loop stops at the list head, whatever its DllBase field holds
LoopEndsAtHead(dll) == SlotAt(dll) = 0

\* "while current_dll.DllBase:" is false
LoopEnds(dll) == dllBase[SlotAt(dll)] = 0

\* one test of "while current_dll.DllBase:" and, when it holds, one run of the
\* loop body; "return res" when it does not
modules_step ==
    /\ ppc = "walk"
    /\ entryReads' = IF entryReads < WalkCap THEN entryReads + 1 ELSE entryReads
    /\ IF ~LoopEnds(curDll)
       THEN /\ res' = IF Len(res) < WalkCap THEN Append(res, curDll) ELSE res
            /\ resMore' = IF Len(res) < WalkCap THEN resMore ELSE 1 - resMore
            /\ curDll' = ptr_flink_to_remote_module(pView, LinkAddr(flink[SlotAt(curDll)]))
            /\ UNCHANGED <<ppc, pret>>
       ELSE /\ ppc' = "done"
            /\ pret' = <<res>>
            /\ UNCHANGED <<res, resMore, curDll>>
    /\ UNCHANGED <<pCur, pTarget, pView, pSyswow, ldr, flink, dllBase, perr>>
    /\ UNCHANGED notPeb

NextPeb ==
    \/ modules_start
    \/ modules_step

(***************************************************************************)
(* Claims about the PEB module walker                                      *)
(***************************************************************************)
\* C6 (as claimed): the walker never loops forever, also on a malformed loader
\* list: every walk that has entered the loop ends, by returning or by raising.
C6_WalkTerminates == (ppc = "walk") ~> (ppc \in {"done", "raised"})

\* C9: when PEB.Ldr is NULL, modules raises ValueError before any field of a
\* list entry has been read, whatever the view (PEB, RemotePEB, RemotePEB32,
\* RemotePEB64); nothing is appended or returned.
C9_NullLdrRaises ==
    (ldr = 0 /\ ppc # "idle") =>
        /\ ppc = "raised"
        /\ perr = "ValueError"
        /\ entryReads = 0
        /\ res = <<>>
        /\ pret = <<>>

\* C9 witness: modules of a remote 32-bit view of a PEB without Ldr has raised
C9_Witness ==
    /\ ldr = 0
    /\ pView = "RemotePEB32"
    /\ ppc = "raised"
    /\ perr = "ValueError"

\* s is a prefix of t
IsPrefix(s, t) == Len(s) <= Len(t) /\ s = SubSeq(t, 1, Len(s))

\* the entries of the loader list in list order: from slot i on, following
\* InMemoryOrderLinks.Flink, up to and excluding the first entry with
\* DllBase = 0 (n bounds the length, for lists with a cycle)
RECURSIVE ListFrom(_, _)
ListFrom(i, n) ==
    IF n = 0 \/ dllBase[i] = 0 THEN <<>>
    ELSE <<EntryBase(i)>> \o ListFrom(flink[i], n - 1)

\* the list InMemoryOrderModuleList.Flink of PEB_LDR_DATA starts
LoaderList == ListFrom(flink[0], WalkCap)

\* C16: the walker returns the entries of the loader list in list order, up
\* to and excluding the first entry whose DllBase is 0 (an empty result when
\* the head points at such an entry); while it walks, what it has collected
\* is a prefix of that list.
C16_ListOrder ==
    /\ ppc = "walk" => IsPrefix(res, LoaderList)
    /\ ppc = "done" => pret = <<LoaderList>> /\ res = LoaderList

\* C17: for every bitness pair and for peb() as for peb_syswow(), the view
\* subtracts twice the pointer size of the width of the PEB it reads (8 for a
\* 32-bit view, 16 for a 64-bit view) from a Flink value, so every Flink that
\* points at the InMemoryOrderLinks of an entry is turned into the base of
\* that entry, and the walk only ever looks at bases of entries.
C17_ViewPointerSize ==
    /\ ViewWidth(pView, pCur) = PebWidth
    /\ 2 * ViewPtrSize(pView) = (IF ViewWidth(pView, pCur) = 32 THEN 8 ELSE 16)
    /\ \A i \in Slots : ptr_flink_to_remote_module(pView, LinkAddr(i)) = EntryBase(i)
    /\ ppc = "walk" => \E i \in Slots : curDll = EntryBase(i)

\* C17 witness: a 64-bit controller walks the 32-bit list of a 32-bit target
C17_Witness ==
    /\ pCur = 64
    /\ pTarget = 32
    /\ pView = "RemotePEB32"
    /\ ppc = "walk"
    /\ Len(res) > 0

\* C16 witness: a walk through a remote 64-bit view has returned two entries
C16_Witness ==
    /\ ppc = "done"
    /\ pView = "RemotePEB64"
    /\ Len(pret[1]) = 2
    /\ pret[1][1] # pret[1][2]

(***************************************************************************)
(* Memory enumeration                                                      *)
(***************************************************************************)

\* the statuses NtQueryVirtualMemory_32_to_64 fails with in the model, as the
\* signed 32-bit values of NtStatusException.code: 0xC000000D, 0xC0000022 and
\* 0x8000000D (the same low word as the first)
NtFailCodes == {-1073741811, -1073741790, -2147483635}

\* the address spaces of the model
AddressSpaces ==
    UNION {[1..n -> 1..MaxRegionSize] : n \in 0..MaxRegions}

RECURSIVE SumTo(_, _)
\* the sum of the first n region sizes: the base address of region n + 1
SumTo(sizes, n) == IF n = 0 THEN 0 ELSE SumTo(sizes, n - 1) + sizes[n]

\* the regions of the address space as (base, size) records, in address order
RegionList(sizes) ==
    [i \in 1..Len(sizes) |-> [base |-> SumTo(sizes, i - 1), size |-> sizes[i]]]

\* the first address past the last region: queries fail from here on
SpaceEnd(sizes) == SumTo(sizes, Len(sizes))

\* VirtualQueryEx / NtQueryVirtualMemory on the address space: the region
\* whose range holds addr
RegionAt(sizes, addr) ==
    LET i == CHOOSE j \in 1..Len(sizes) :
                 SumTo(sizes, j - 1) <= addr /\ addr < SumTo(sizes, j)
    IN  RegionList(sizes)[i]

\* only the low word of the code is compared
Mask32LowWord(code) == <<PartialCopyHi, code % 65536>>

\* e.code & 0xffffffff, as <<high word, low word>>
Mask32(code) == <<(code \div 65536) % 65536, code % 65536>>

\* Process.query_memory(addr): [ok |-> TRUE, region |-> r] or the exception
\* (code: the code of the NtStatusException that is re-raised, 0 otherwise)
query_memory(addr) ==
    IF mCur = 32 /\ mTarget = 64
    THEN IF addr < SpaceEnd(regions)
         THEN [ok |-> TRUE, region |-> RegionAt(regions, addr), err |-> "none", code |-> 0]
         ELSE IF Mask32(ntCode) = <<PartialCopyHi, PartialCopyLo>>
              THEN [ok |-> FALSE, region |-> <<>>, err |-> "Kernel32Error", code |-> 0]
              ELSE [ok |-> FALSE, region |-> <<>>, err |-> "NtStatusException",
                    code |-> ntCode]
    ELSE IF addr < SpaceEnd(regions)
         THEN [ok |-> TRUE, region |-> RegionAt(regions, addr), err |-> "none", code |-> 0]
         ELSE [ok |-> FALSE, region |-> <<>>, err |-> "Kernel32Error", code |-> 0]

InitMemState ==
    /\ mpc = "idle"
    /\ maddr = 0
    /\ mx = <<>>
    /\ yielded = <<>>
    /\ queries = 0
    /\ merr = "none"
    /\ runs = 0
    /\ prevRun = <<>>

InitMem ==
    /\ mCur \in Bitness
    /\ mTarget \in Bitness
    /\ regions \in AddressSpaces
    /\ ntCode \in NtFailCodes
    /\ InitMemState

IdleMem ==
    /\ mCur = 32
    /\ mTarget = 32
    /\ regions = <<>>
    /\ ntCode = -1073741811
    /\ InitMemState

\* memory_state(): a new generator; its body has not run yet
memory_state ==
    /\ mpc \in {"idle", "done", "raised"}
    /\ runs < MaxRuns
    /\ runs' = runs + 1
    /\ prevRun' = IF mpc = "idle" THEN <<>> ELSE <<yielded, mpc, merr>>
    /\ mpc' = "active"
    /\ maddr' = 0
    /\ mx' = <<>>
    /\ yielded' = <<>>
    /\ queries' = 0
    /\ merr' = "none"
    /\ UNCHANGED <<mCur, mTarget, regions, ntCode>>
    /\ UNCHANGED notMem

\* The mutant of NextAddr: the enumeration advances by one page.
NextAddrOnePage(addr, x) == IF x = <<>> THEN addr ELSE addr + 1

\* addr += x.RegionSize when the generator resumes after a yield
NextAddr(addr, x) == IF x = <<>> THEN addr ELSE addr + x.size

\* The mutant of EndsEnumeration: the except clause catches nothing.
EndsEnumerationNever(err) == FALSE

\* except winproxy.Kernel32Error: return
EndsEnumeration(err) == err = "Kernel32Error"

\* next() on the generator: resume after the last yield (addr += x.RegionSize),
\* query the address, then yield the region, return or raise
memory_state_next ==
    /\ mpc = "active"
    /\ LET addr == NextAddr(maddr, mx)
           r == query_memory(addr)
       IN  /\ maddr' = addr
           /\ queries' = queries + 1
           /\ IF r.ok
              THEN /\ mx' = r.region
                   /\ yielded' = Append(yielded, r.region)
                   /\ UNCHANGED <<mpc, merr>>
              ELSE /\ mpc' = IF EndsEnumeration(r.err) THEN "done" ELSE "raised"
                   /\ merr' = IF EndsEnumeration(r.err) THEN "none" ELSE r.err
                   /\ UNCHANGED <<mx, yielded>>
    /\ UNCHANGED <<mCur, mTarget, regions, ntCode, runs, prevRun>>
    /\ UNCHANGED notMem

NextMem ==
    \/ memory_state
    \/ memory_state_next

(***************************************************************************)
(* Claims about memory enumeration                                         *)
(***************************************************************************)
\* C4: the enumeration starts at address 0; the regions it yields have
\* non-decreasing, contiguous bases (base[i+1] = base[i] + size[i]); each region
\* of the address space is yielded once, in order; an enumeration that has
\* ended has covered every address from 0 to the first failing address.
C4_ContiguousCoverage ==
    /\ Len(yielded) >= 1 => yielded[1].base = 0
    /\ \A i \in 1..(Len(yielded) - 1) :
            /\ yielded[i].base <= yielded[i + 1].base
            /\ yielded[i + 1].base = yielded[i].base + yielded[i].size
    /\ IsPrefix(yielded, RegionList(regions))
    /\ \A i, j \in 1..Len(yielded) : i # j => yielded[i] # yielded[j]
    /\ mpc \in {"done", "raised"} =>
            /\ yielded = RegionList(regions)
            /\ maddr = SpaceEnd(regions)

\* C4 witness: an enumeration of several regions has ended
C4_Witness ==
    /\ mpc = "done"
    /\ Len(yielded) >= 2
    /\ yielded[2].base = yielded[1].size

\* C5 (as claimed): the enumeration ends without raising at the first failing query.
C5_EndsWithoutRaising == mpc # "raised"

\* C5 (amended): every enumeration ends at the first failing query, after
\* yielding exactly the regions queried before it: by returning when the
\* failure is Kernel32Error (which 0xC000000D on the 32-to-64 path is turned
\* into), by raising the NtStatusException otherwise; a fresh enumeration
\* starts from address 0 again and ends with the same result.
C5_FiniteEnumeration ==
    /\ [](mpc \in {"done", "raised"} =>
            /\ queries = Len(regions) + 1
            /\ yielded = RegionList(regions)
            /\ mpc = "raised" <=>
                    (mCur = 32 /\ mTarget = 64
                     /\ Mask32(ntCode) # <<PartialCopyHi, PartialCopyLo>>)
            /\ mpc = "raised" => merr = "NtStatusException"
            /\ prevRun # <<>> => prevRun = <<yielded, mpc, merr>>)
    /\ [](mpc = "active" /\ queries = 0 => maddr = 0 /\ yielded = <<>>)
    /\ (mpc = "active" ~> mpc \in {"done", "raised"})

\* C5 witness: a second enumeration of a non-empty address space has returned
C5_Witness ==
    /\ mpc = "done"
    /\ runs = 2
    /\ prevRun # <<>>
    /\ Len(yielded) >= 1

\* C20: on the 32-bit controller / 64-bit target path a query that fails with
\* NT status 0xC000000D raises Kernel32Error, the error that ends memory
\* enumeration, and a query that fails with any other status raises the
\* NtStatusException with its code; on every other path a failing query
\* raises Kernel32Error. Accordingly an enumeration ends by raising exactly
\* on the first path with another status.
C20_QueryMemoryErrors ==
    /\ \A addr \in 0..(SpaceEnd(regions) + 1) :
          LET q == query_memory(addr)
          IN  IF addr < SpaceEnd(regions)
              THEN q.ok /\ q.err = "none" /\ q.region = RegionAt(regions, addr)
              ELSE /\ ~q.ok
                   /\ IF mCur = 32 /\ mTarget = 64 /\ ntCode # -1073741811
                      THEN q.err = "NtStatusException" /\ q.code = ntCode
                      ELSE q.err = "Kernel32Error"
    /\ mpc = "done" => (mCur = 32 /\ mTarget = 64 => ntCode = -1073741811)
    /\ mpc = "raised" =>
          /\ mCur = 32 /\ mTarget = 64 /\ ntCode # -1073741811
          /\ merr = "NtStatusException"

\* C20 witness: on the 32-bit / 64-bit path the status 0x8000000D, which
\* shares its low word with 0xC000000D, has been re-raised after a region
C20_Witness ==
    /\ mCur = 32
    /\ mTarget = 64
    /\ ntCode = -2147483635
    /\ mpc = "raised"
    /\ merr = "NtStatusException"
    /\ Len(yielded) > 0

(***************************************************************************)
(* Scoped allocation                                                       *)
(***************************************************************************)
\* the addresses VirtualAlloc / VirtualAllocEx return in the model
AllocAddrs == {4096 * i : i \in 1..MaxAllocs}

\* the sizes asked for (no allocation of size 0)
AllocSizes == {1, 4096}

\* the ways a with-block is left
ExitPaths == {"complete", "raise", "return"}

InitAllocState ==
    /\ apc = "idle"
    /\ aAddr = <<>>
    /\ aSize = 0
    /\ aExit = "none"
    /\ aFrees = <<>>
    /\ mapped = {}
    /\ aerr = "none"
    /\ scopes = 0

InitAlloc ==
    /\ aKind \in {"WinProcess", "CurrentProcess"}
    /\ InitAllocState

IdleAlloc ==
    /\ aKind = "WinProcess"
    /\ InitAllocState

\* WinProcess.virtual_alloc (VirtualAllocEx(self.handle, dwSize=size)) and
\* CurrentProcess.virtual_alloc (VirtualAlloc(dwSize=size)): an address not in
\* use, or Kernel32Error (also when the handle cannot be opened)
virtual_alloc(size) ==
    {[ok |-> FALSE, addr |-> 0, err |-> "Kernel32Error"]}
    \cup {[ok |-> TRUE, addr |-> a, err |-> "none"] : a \in AllocAddrs \ mapped}

\* "with p.allocated_memory(size) as addr:": the generator runs to its yield;
\* virtual_alloc is called before the try statement
allocated_memory_enter(size) ==
    /\ apc \in {"idle", "exited"}
    /\ scopes < MaxScopes
    /\ scopes' = scopes + 1
    /\ aSize' = size
    /\ aExit' = "none"
    /\ aFrees' = <<>>
    /\ \E r \in virtual_alloc(size) :
          IF r.ok
          THEN /\ apc' = "body"
               /\ aAddr' = <<r.addr>>
               /\ mapped' = mapped \cup {r.addr}
               /\ aerr' = "none"
          ELSE /\ apc' = "exited"
               /\ aAddr' = <<>>
               /\ aerr' = r.err
               /\ UNCHANGED mapped
    /\ UNCHANGED aKind
    /\ UNCHANGED notAlloc

\* The mutant of RunsFinally: the free follows the yield without try/finally,
\* so it runs only when the block completes.
RunsFinallyOnCompletion(path) == path = "complete"

\* try: yield addr / finally: the finally clause runs however the block is left
\* (the generator is resumed, thrown into, or resumed after a return)
RunsFinally(path) == path \in ExitPaths

\* the with-block is left: contextmanager resumes the generator and the
\* finally clause calls VirtualFreeEx(self.handle, addr), which may raise
allocated_memory_exit(path, freeOk) ==
    /\ apc = "body"
    /\ apc' = "exited"
    /\ aExit' = path
    /\ IF RunsFinally(path)
       THEN /\ aFrees' = Append(aFrees, aAddr[1])
            /\ mapped' = IF freeOk THEN mapped \ {aAddr[1]} ELSE mapped
            /\ aerr' = IF ~freeOk THEN "Kernel32Error"
                        ELSE IF path = "raise" THEN "BodyError" ELSE "none"
       ELSE /\ aerr' = IF path = "raise" THEN "BodyError" ELSE "none"
            /\ UNCHANGED <<aFrees, mapped>>
    /\ UNCHANGED <<aKind, aAddr, aSize, scopes>>
    /\ UNCHANGED notAlloc

NextAlloc ==
    \/ \E size \in AllocSizes : allocated_memory_enter(size)
    \/ \E path \in ExitPaths, freeOk \in BOOLEAN : allocated_memory_exit(path, freeOk)

(***************************************************************************)
(* Claims about the scoped allocation                                      *)
(***************************************************************************)
\* C7: when virtual_alloc returned an address, exactly one VirtualFreeEx of
\* that address has been issued once the with-block is left, however it is left
\* (completion, exception, early return), and none before; when virtual_alloc
\* raised, no free is issued.
C7_ScopedAllocFreed ==
    /\ apc = "body" => aAddr # <<>> /\ aFrees = <<>>
    /\ (apc = "exited" /\ aAddr # <<>>) => aFrees = <<aAddr[1]>>
    /\ (apc = "exited" /\ aAddr = <<>>) => aFrees = <<>> /\ aerr = "Kernel32Error"

\* C7 witness: a with-block left by an exception, its buffer freed
C7_Witness ==
    /\ apc = "exited"
    /\ aExit = "raise"
    /\ aAddr # <<>>
    /\ aFrees = <<aAddr[1]>>
    /\ aAddr[1] \notin mapped

(***************************************************************************)
(* Toolhelp enumerators                                                    *)
(***************************************************************************)
\* the snapshots of the model: at most MaxSnap entries with ids 1..MaxId
Snapshots == UNION {[1..n -> 1..MaxId] : n \in 0..MaxSnap}

InitEnumState ==
    /\ epc = "idle"
    /\ ePos = 0
    /\ entry = 0
    /\ eres = <<>>
    /\ openSnaps = {}
    /\ snapCount = 0
    /\ eerr = "none"
    /\ enums = 0

InitEnum ==
    /\ eWhat \in {"processes", "threads"}
    /\ snapshot \in Snapshots
    /\ InitEnumState

IdleEnum ==
    /\ eWhat = "processes"
    /\ snapshot = <<>>
    /\ InitEnumState

\* the buffer itself is appended: no copy is made
copy_none(buf) == [alias |-> TRUE, val |-> buf]

\* copy.copy(thread_entry): a new object with the value the buffer has now
copy_copy(buf) == [alias |-> FALSE, val |-> buf]

\* utils.swallow_ctypes_copy(process_entry): a new object with the value the
\* buffer has now
swallow_ctypes_copy(buf) == [alias |-> FALSE, val |-> buf]

\* the copy the enumerator appends
EntryCopy(buf) ==
    IF eWhat = "processes" THEN swallow_ctypes_copy(buf) ELSE copy_copy(buf)

\* enumerate_processes / enumerate_threads up to the while loop:
\* CreateToolhelp32Snapshot, Process32First / Thread32First, the first append.
\* Both thunks raise Kernel32Error on failure; First fails on an empty snapshot.
enumerate_start(createOk, firstOk) ==
    /\ epc \in {"idle", "done", "raised"}
    /\ enums < MaxEnums
    /\ enums' = enums + 1
    /\ IF ~createOk
       THEN /\ epc' = "raised"
            /\ eerr' = "Kernel32Error"
            /\ eres' = <<>>
            /\ ePos' = 0
            /\ entry' = 0
            /\ UNCHANGED <<openSnaps, snapCount>>
       ELSE /\ snapCount' = snapCount + 1
            /\ openSnaps' = openSnaps \cup {snapCount + 1}
            /\ IF firstOk /\ Len(snapshot) > 0
               THEN /\ entry' = snapshot[1]
                    /\ ePos' = 1
                    /\ eres' = <<EntryCopy(snapshot[1])>>
                    /\ epc' = "loop"
                    /\ eerr' = "none"
               ELSE /\ epc' = "raised"
                    /\ eerr' = "Kernel32Error"
                    /\ eres' = <<>>
                    /\ ePos' = 0
                    /\ entry' = 0
    /\ UNCHANGED <<eWhat, snapshot>>
    /\ UNCHANGED notEnum

\* one test of "while winproxy.Process32Next(snap, entry):" and, when there is
\* another entry, the append; "return res" at the end of the snapshot; the
\* thunk raises Kernel32Error when it fails for another reason
enumerate_next(nextOk) ==
    /\ epc = "loop"
    /\ IF ~nextOk
       THEN /\ epc' = "raised"
            /\ eerr' = "Kernel32Error"
            /\ UNCHANGED <<ePos, entry, eres>>
       ELSE IF ePos < Len(snapshot)
            THEN /\ entry' = snapshot[ePos + 1]
                 /\ ePos' = ePos + 1
                 /\ eres' = Append(eres, EntryCopy(snapshot[ePos + 1]))
                 /\ UNCHANGED <<epc, eerr>>
            ELSE /\ epc' = "done"
                 /\ UNCHANGED <<ePos, entry, eres, eerr>>
    /\ UNCHANGED <<eWhat, snapshot, openSnaps, snapCount, enums>>
    /\ UNCHANGED notEnum

NextEnum ==
    \/ \E createOk \in BOOLEAN, firstOk \in BOOLEAN : enumerate_start(createOk, firstOk)
    \/ \E nextOk \in BOOLEAN : enumerate_next(nextOk)

(***************************************************************************)
(* Claims about the toolhelp enumerators                                   *)
(***************************************************************************)
\* C8 (as claimed): when enumerate_processes / enumerate_threads has returned
\* or raised, no snapshot handle it created is open.
C8_SnapshotReleased == epc \in {"done", "raised"} => openSnaps = {}

\* what an element of the result shows when it is read: the buffer as it is
\* now for an alias of the buffer, the value copied for an owned copy
EntryValue(e) == IF e.alias THEN entry ELSE e.val

\* C18: every element of the result shows the snapshot entry of its own
\* position, in snapshot order, whatever the kernel has written into the
\* buffer since; the loop has appended one element per entry handed out, and
\* a call that returns has one element per snapshot entry.
C18_OwnedCopies ==
    /\ Len(eres) <= Len(snapshot)
    /\ \A i \in DOMAIN eres : EntryValue(eres[i]) = snapshot[i] /\ ~eres[i].alias
    /\ epc = "loop" => Len(eres) = ePos
    /\ epc = "done" => Len(eres) = Len(snapshot)

\* C18 witness: enumerate_threads has returned two entries with different ids
C18_Witness ==
    /\ eWhat = "threads"
    /\ epc = "done"
    /\ Len(eres) = 2
    /\ eres[1].val # eres[2].val
    /\ entry = eres[2].val

(***************************************************************************)
(* PEB address                                                             *)
(***************************************************************************)
\* the addresses the kernel reports for a PEB; 0 is the NULL pointer
PebAddrs == {0, 8192, 12288}

InitPebAddrState ==
    /\ qCache = <<>>
    /\ qRet = <<>>
    /\ qErr = "none"
    /\ qQueries = 0
    /\ qAccesses = 0

InitPebAddr ==
    /\ qCur \in Bitness
    /\ qTarget \in Bitness
    /\ qPeb \in PebAddrs
    /\ InitPebAddrState

IdlePebAddr ==
    /\ qCur = 32
    /\ qTarget = 32
    /\ qPeb = 0
    /\ InitPebAddrState

\* the value the body of peb_addr holds in its variable peb_addr after the
\* query, <<v>> for the integer v and <<>> for None:
\* struct.unpack("<Q", ...)[0] and ULONGLONG.value are integers (0 for a NULL
\* pointer); ctypes.cast(x.PebBaseAddress, PVOID).value of a NULL pointer is
\* None
QueriedPebAddr ==
    IF qCur = 32 /\ qTarget = 64 THEN <<qPeb>>
    ELSE IF qCur = 64 /\ qTarget = 32 THEN <<qPeb>>
    ELSE IF qPeb = 0 THEN <<>> ELSE <<qPeb>>

\* "if peb_addr is None"
IsNone(v) == v = <<>>

\* WinProcess.peb_addr (the function the property wraps), after a query that
\* succeeded: "if peb_addr is None: raise ValueError", else "return peb_addr"
peb_addr_body ==
    IF IsNone(QueriedPebAddr)
    THEN [ok |-> FALSE, val |-> 0, err |-> "ValueError"]
    ELSE [ok |-> TRUE, val |-> QueriedPebAddr[1], err |-> "none"]

\* fixedpropety(peb_addr): an access of the property. The cached attribute is
\* returned when set; otherwise the function runs (its query may raise
\* Kernel32Error / NtStatusException, modelled as "QueryError") and its value
\* is stored, nothing being stored when it raises.
peb_addr(queryOk) ==
    /\ qAccesses < MaxPebAccess
    /\ qAccesses' = qAccesses + 1
    /\ IF qCache # <<>>
       THEN /\ qRet' = qCache
            /\ qErr' = "none"
            /\ UNCHANGED <<qCache, qQueries>>
       ELSE /\ qQueries' = qQueries + 1
            /\ IF ~queryOk
               THEN /\ qErr' = "QueryError"
                    /\ qRet' = <<>>
                    /\ UNCHANGED qCache
               ELSE IF peb_addr_body.ok
                    THEN /\ qCache' = <<peb_addr_body.val>>
                         /\ qRet' = <<peb_addr_body.val>>
                         /\ qErr' = "none"
                    ELSE /\ qErr' = peb_addr_body.err
                         /\ qRet' = <<>>
                         /\ UNCHANGED qCache
    /\ UNCHANGED <<qCur, qTarget, qPeb>>
    /\ UNCHANGED notPebAddr

NextPebAddr ==
    \E queryOk \in BOOLEAN : peb_addr(queryOk)

(***************************************************************************)
(* Claims about the PEB address                                            *)
(***************************************************************************)
\* C10 (as claimed): peb_addr never returns 0 or None; whenever the queried
\* PEB pointer is NULL and the query succeeded the access raises ValueError,
\* in all three dispatch cases; nothing is cached by a failed access.
C10_NullPebRaises ==
    /\ qRet # <<>> => qRet[1] # 0
    /\ (qPeb = 0 /\ qAccesses > 0) => qErr \in {"ValueError", "QueryError"}
    /\ (qPeb = 0 \/ qErr # "none") => qCache = <<>>

(***************************************************************************)
(* Thread from a handle                                                    *)
(***************************************************************************)
InitFromHandleState ==
    /\ fpc = "idle"
    /\ fCls = "none"
    /\ fIdx = 0
    /\ fResTid = 0
    /\ fResHandle = <<>>
    /\ fOpens = 0
    /\ fReads = 0
    /\ fLastRead = <<>>
    /\ fFailed = "none"
    /\ ferr = "none"

InitFromHandle ==
    /\ fHandle \in 1..MaxHandle
    /\ fTid \in 1..MaxId
    /\ fSnap \in Snapshots
    /\ InitFromHandleState

IdleFromHandle ==
    /\ fHandle = 1
    /\ fTid = 1
    /\ fSnap = <<>>
    /\ InitFromHandleState

\* [t for t in System().threads if t.tid == tid], as indexes of the snapshot
MatchingThreadsAny(tid) == DOMAIN fSnap
MatchingThreads(tid) == {i \in DOMAIN fSnap : fSnap[i] = tid}

\* the element [0] of that list
FirstOf(S) == CHOOSE i \in S : \A j \in S : i <= j

\* DeadThread.__init__(handle, tid): tid is given, so GetThreadId is not called
DeadThread_init(handle, tid) ==
    /\ fCls' = "DeadThread"
    /\ fIdx' = 0
    /\ fResTid' = tid
    /\ fResHandle' = <<handle>>

\* WinThread._from_handle(handle). GetThreadId and the thread snapshot raise
\* Kernel32Error when they fail; formatting the thread for dbgprint evaluates
\* its owner, which takes a process snapshot and can fail the same way. Only
\* IndexError (no thread matches) is caught.
WinThread_from_handle(tidOk, threadsOk, reprOk) ==
    /\ fpc = "idle"
    /\ IF ~tidOk
       THEN /\ fpc' = "raised"
            /\ ferr' = "Kernel32Error"
            /\ fFailed' = "GetThreadId"
            /\ UNCHANGED <<fCls, fIdx, fResTid, fResHandle>>
       ELSE IF ~threadsOk
       THEN /\ fpc' = "raised"
            /\ ferr' = "Kernel32Error"
            /\ fFailed' = "threads"
            /\ UNCHANGED <<fCls, fIdx, fResTid, fResHandle>>
       ELSE IF MatchingThreads(fTid) = {}
       THEN /\ DeadThread_init(fHandle, fTid)
            /\ fpc' = "returned"
            /\ UNCHANGED <<ferr, fFailed>>
       ELSE IF ~reprOk
       THEN /\ fpc' = "raised"
            /\ ferr' = "Kernel32Error"
            /\ fFailed' = "repr"
            /\ UNCHANGED <<fCls, fIdx, fResTid, fResHandle>>
       ELSE /\ fCls' = "WinThread"
            /\ fIdx' = FirstOf(MatchingThreads(fTid))
            /\ fResTid' = fSnap[FirstOf(MatchingThreads(fTid))]
            /\ fResHandle' = <<fHandle>>
            /\ fpc' = "returned"
            /\ UNCHANGED <<ferr, fFailed>>
    /\ UNCHANGED <<fHandle, fTid, fSnap, fOpens, fReads, fLastRead>>
    /\ UNCHANGED notFromHandle

\* AutoHandle.handle read on the object returned: the stored _handle when the
\* attribute is set, else _get_handle() (OpenThread) whose result is stored
result_handle(openOk) ==
    /\ fpc = "returned"
    /\ fReads < MaxHandleReads
    /\ fReads' = fReads + 1
    /\ IF fResHandle # <<>>
       THEN /\ fLastRead' = fResHandle
            /\ UNCHANGED <<fResHandle, fOpens>>
       ELSE /\ fOpens' = fOpens + 1
            /\ IF openOk
               THEN /\ fResHandle' = <<MaxHandle>>
                    /\ fLastRead' = <<MaxHandle>>
               ELSE /\ fLastRead' = <<>>
                    /\ UNCHANGED fResHandle
    /\ UNCHANGED <<fHandle, fTid, fSnap, fpc, fCls, fIdx, fResTid, fFailed, ferr>>
    /\ UNCHANGED notFromHandle

NextFromHandle ==
    \/ \E tidOk \in BOOLEAN, threadsOk \in BOOLEAN, reprOk \in BOOLEAN :
          WinThread_from_handle(tidOk, threadsOk, reprOk)
    \/ \E openOk \in BOOLEAN : result_handle(openOk)

(***************************************************************************)
(* Claims about the thread from a handle                                   *)
(***************************************************************************)
\* C11: _from_handle(h) returns the first live thread of the snapshot whose
\* tid is the tid of h, with h as its handle, and a DeadThread holding (h, tid)
\* when no live thread matches; it raises only when an OS call failed (never
\* because no thread matched), and reading the handle of the object returned
\* gives h without any OpenThread.
C11_FromHandle ==
    /\ (fpc = "returned" /\ MatchingThreads(fTid) # {}) =>
          /\ fCls = "WinThread"
          /\ fIdx \in MatchingThreads(fTid)
          /\ fResTid = fTid
          /\ fResHandle = <<fHandle>>
    /\ (fpc = "returned" /\ MatchingThreads(fTid) = {}) =>
          /\ fCls = "DeadThread"
          /\ fResTid = fTid
          /\ fResHandle = <<fHandle>>
    /\ fpc = "raised" => ferr = "Kernel32Error" /\ fFailed # "none"
    /\ (fFailed = "repr") => MatchingThreads(fTid) # {}
    /\ fOpens = 0
    /\ fReads > 0 => fLastRead = <<fHandle>>

C11_Witness ==
    /\ fpc = "returned"
    /\ fCls = "DeadThread"
    /\ Len(fSnap) > 0
    /\ fReads > 0

(***************************************************************************)
(* Thread context                                                          *)
(***************************************************************************)
\* the context classes of windows.exception
ContextTypes == {"ECONTEXT32", "ECONTEXTWOW64", "ECONTEXT64"}

\* register width of a context class
ContextWidth(ctx) == IF ctx = "ECONTEXT64" THEN 64 ELSE 32

\* the class WinThread.context builds for a (current, owner) bitness pair
RequiredContext(cur, owner) ==
    IF owner = 32 /\ cur = 64 THEN "ECONTEXTWOW64"
    ELSE IF owner = 64 /\ cur = 32 THEN "ECONTEXT64"
    ELSE IF owner = 32 THEN "ECONTEXT32"
    ELSE "ECONTEXT64"

\* what a thunk invocation can do: succeed or raise
ThunkOutcomes == {"none", "Kernel32Error", "NtStatusException", "ArgumentError"}

InitSetContextState ==
    /\ sCtx = "none"
    /\ sThunk = "none"
    /\ sThunkCalls = 0
    /\ sErr = "none"
    /\ sCalls = 0

InitSetContext ==
    /\ sCur \in Bitness
    /\ sOwner \in Bitness \cup {0}
    /\ sHandle \in 1..MaxHandle
    /\ InitSetContextState

IdleSetContext ==
    /\ sCur = 32
    /\ sOwner = 32
    /\ sHandle = 1
    /\ InitSetContextState

\* the thunk set_context selects for a (current, owner) bitness pair
SetContextThunk(cur, owner) ==
    IF owner = cur THEN "SetThreadContext"
    ELSE IF cur = 64 /\ owner = 32 THEN "Wow64SetThreadContext"
    ELSE "NtSetContextThread_32_to_64"

\* WinThread.set_context(context): self.owner.bitness raises AttributeError
\* when owner is None; otherwise the selected thunk is invoked with the
\* context as given
set_context(ctx, outcome) ==
    /\ sCalls < MaxSetCalls
    /\ sCalls' = sCalls + 1
    /\ sCtx' = ctx
    /\ IF sOwner = 0
       THEN /\ sErr' = "AttributeError"
            /\ sThunk' = "none"
            /\ UNCHANGED sThunkCalls
       ELSE /\ sThunk' = SetContextThunk(sCur, sOwner)
            /\ sThunkCalls' = sThunkCalls + 1
            /\ sErr' = outcome
    /\ UNCHANGED <<sCur, sOwner, sHandle>>
    /\ UNCHANGED notSetContext

NextSetContext ==
    \E ctx \in ContextTypes, outcome \in ThunkOutcomes : set_context(ctx, outcome)

(***************************************************************************)
(* Claims about the thread context                                         *)
(***************************************************************************)
\* C12 (as claimed): a call of set_context with a context whose width differs
\* from the width of the context class the (current, owner) pair requires
\* fails, and invokes no thunk.
C12_MismatchRejected ==
    (/\ sCalls > 0
     /\ sOwner # 0
     /\ ContextWidth(sCtx) # ContextWidth(RequiredContext(sCur, sOwner)))
        => (sErr # "none" /\ sThunk = "none")

(***************************************************************************)
(* 64-bit PEB of a WoW64 process                                           *)
(***************************************************************************)
InitSyswowState ==
    /\ wWowCache = <<>>
    /\ wCache = <<>>
    /\ wRet = <<>>
    /\ wErr = "none"
    /\ wFailed = "none"
    /\ wQueries = 0
    /\ wAccesses = 0

\* a WoW64 process is a 32-bit process, so the current process is WoW64 only
\* when it is 32-bit
InitSyswow ==
    /\ wKind \in {"CurrentProcess", "WinProcess"}
    /\ wCur \in Bitness
    /\ wWow \in BOOLEAN
    /\ (wKind = "CurrentProcess" /\ wWow) => wCur = 32
    /\ wPeb \in PebAddrs
    /\ InitSyswowState

IdleSyswow ==
    /\ wKind = "WinProcess"
    /\ wCur = 32
    /\ wWow = FALSE
    /\ wPeb = 0
    /\ InitSyswowState

\* "if not self.is_wow_64"
NotSyswowNever(wow) == FALSE
NotSyswow(wow) == ~wow

\* an access of peb_syswow. The cached view is returned when set. Otherwise
\* is_wow_64 is read (itself cached; IsWow64Process can fail), ValueError is
\* raised for a process that is not WoW64, else the PEB is queried and the
\* view stored. Nothing is stored by an access that raises.
peb_syswow(wowOk, queryOk) ==
    /\ wAccesses < MaxPebAccess
    /\ wAccesses' = wAccesses + 1
    /\ IF wCache # <<>>
       THEN /\ wRet' = wCache
            /\ wErr' = "none"
            /\ wFailed' = "none"
            /\ UNCHANGED <<wCache, wWowCache, wQueries>>
       ELSE IF wWowCache = <<>> /\ ~wowOk
       THEN /\ wErr' = "Kernel32Error"
            /\ wFailed' = "IsWow64Process"
            /\ wRet' = <<>>
            /\ UNCHANGED <<wCache, wWowCache, wQueries>>
       ELSE /\ wWowCache' = <<wWow>>
            /\ IF NotSyswow(wWow)
               THEN /\ wErr' = "ValueError"
                    /\ wFailed' = "none"
                    /\ wRet' = <<>>
                    /\ UNCHANGED <<wCache, wQueries>>
               ELSE /\ wQueries' = wQueries + 1
                    /\ IF queryOk
                       THEN /\ wCache' = <<SyswowView(wKind, wCur, wPeb)>>
                            /\ wRet' = <<SyswowView(wKind, wCur, wPeb)>>
                            /\ wErr' = "none"
                            /\ wFailed' = "none"
                       ELSE /\ wErr' = "Kernel32Error"
                            /\ wFailed' = "NtQueryInformationProcess"
                            /\ wRet' = <<>>
                            /\ UNCHANGED wCache
    /\ UNCHANGED <<wKind, wCur, wWow, wPeb>>
    /\ UNCHANGED notSyswow

NextSyswow ==
    \E wowOk \in BOOLEAN, queryOk \in BOOLEAN : peb_syswow(wowOk, queryOk)

(***************************************************************************)
(* Claims about the 64-bit PEB of a WoW64 process                          *)
(***************************************************************************)
\* C13: on a process that is not WoW64 every access of peb_syswow raises
\* (ValueError once IsWow64Process has answered), no PEB query is ever issued
\* and nothing is cached; on a WoW64 process a view that is returned is a
\* 64-bit view. This holds for CurrentProcess and for WinProcess.
C13_SyswowOnly ==
    /\ (~wWow /\ wAccesses > 0) =>
          /\ wErr = (IF wFailed = "IsWow64Process" THEN "Kernel32Error" ELSE "ValueError")
          /\ wRet = <<>>
    /\ ~wWow => wQueries = 0 /\ wCache = <<>>
    /\ wErr # "none" => wRet = <<>>
    /\ (wCache = <<>> /\ wAccesses > 0) => wErr # "none"
    /\ wRet # <<>> => wWow /\ ViewWidth(wRet[1].cls, wCur) = 64

C13_Witness ==
    /\ ~wWow
    /\ wKind = "CurrentProcess"
    /\ wAccesses > 1
    /\ wErr = "ValueError"

(***************************************************************************)
(* String reads                                                            *)
(***************************************************************************)
\* byte values of the model: the terminator and the two bytes of a byte
\* order mark
ByteValues == {0, 254, 255}

\* the size of one read of the loops (0x100 in the code)
ChunkSize == 2 * ChunkPairs

Memories == UNION {[1..(2 * n) -> ByteValues] : n \in 1..MaxMemPairs}

InitStringState ==
    /\ rFn = "none"
    /\ rAddr = 0
    /\ rpc = "idle"
    /\ rret = <<>>
    /\ rerr = "none"
    /\ rChunks = 0
    /\ rCalls = 0

InitString ==
    /\ rMem \in Memories
    /\ InitStringState

IdleString ==
    /\ rMem = <<0, 0>>
    /\ InitStringState

\* WinProcess.read_memory(addr, size): ReadProcessMemory copies all of the
\* range or fails; the thunk raises Kernel32Error when it fails
read_memory(addr, size) ==
    IF addr + size <= Len(rMem)
    THEN [ok |-> TRUE, data |-> SubSeq(rMem, addr + 1, addr + size)]
    ELSE [ok |-> FALSE, data |-> <<>>]

\* the index of the first element of x equal to v, 0 if there is none
IndexOf(x, v) ==
    IF \E i \in DOMAIN x : x[i] = v
    THEN CHOOSE i \in DOMAIN x : x[i] = v /\ \A j \in 1..(i - 1) : x[j] # v
    ELSE 0

\* ["".join(c) for c in zip(*[iter(x)] * 2)]
utf16_chars(x) == [k \in 1..(Len(x) \div 2) |-> <<x[2 * k - 1], x[2 * k]>>]

\* the loop of read_string from iteration i on, res being what the earlier
\* iterations appended
RECURSIVE read_string_loop(_, _, _)
read_string_loop(addr, i, r) ==
    LET x == read_memory(addr + i * ChunkSize, ChunkSize)
    IN  IF ~x.ok
        THEN [ok |-> FALSE, val |-> <<>>, err |-> "Kernel32Error", chunks |-> i + 1]
        ELSE IF IndexOf(x.data, 0) # 0
        THEN [ok |-> TRUE, val |-> r \o SubSeq(x.data, 1, IndexOf(x.data, 0) - 1),
              err |-> "none", chunks |-> i + 1]
        ELSE read_string_loop(addr, i + 1, r \o x.data)

\* the loop of read_wstring: the terminator is looked for among the pairs of
\* the chunk; the pairs before it, or all the bytes of the chunk, are appended
RECURSIVE read_wstring_loop(_, _, _)
read_wstring_loop(addr, i, r) ==
    LET x == read_memory(addr + i * ChunkSize, ChunkSize)
        idx == IndexOf(utf16_chars(x.data), <<0, 0>>)
    IN  IF ~x.ok
        THEN [ok |-> FALSE, val |-> <<>>, err |-> "Kernel32Error", chunks |-> i + 1]
        ELSE IF idx # 0
        THEN [ok |-> TRUE, val |-> r \o SubSeq(x.data, 1, 2 * (idx - 1)),
              err |-> "none", chunks |-> i + 1]
        ELSE read_wstring_loop(addr, i + 1, r \o x.data)

\* code units of a byte string, low byte first / high byte first
utf16le(b) == [k \in 1..(Len(b) \div 2) |-> b[2 * k - 1] + 256 * b[2 * k]]
utf16be(b) == [k \in 1..(Len(b) \div 2) |-> 256 * b[2 * k - 1] + b[2 * k]]

\* str.decode('utf16'): a leading byte order mark selects the byte order and
\* is removed; without one the bytes are little endian
decode_utf16(b) ==
    IF Len(b) >= 2 /\ b[1] = 255 /\ b[2] = 254 THEN utf16le(SubSeq(b, 3, Len(b)))
    ELSE IF Len(b) >= 2 /\ b[1] = 254 /\ b[2] = 255 THEN utf16be(SubSeq(b, 3, Len(b)))
    ELSE utf16le(b)

\* Process.read_string(addr)
read_string(addr) ==
    /\ rCalls < MaxStringReads
    /\ rCalls' = rCalls + 1
    /\ rFn' = "read_string"
    /\ rAddr' = addr
    /\ LET out == read_string_loop(addr, 0, <<>>)
       IN  /\ rpc' = IF out.ok THEN "done" ELSE "raised"
           /\ rret' = IF out.ok THEN <<out.val>> ELSE <<>>
           /\ rerr' = out.err
           /\ rChunks' = out.chunks
    /\ UNCHANGED rMem
    /\ UNCHANGED notString

\* Process.read_wstring(addr)
read_wstring(addr) ==
    /\ rCalls < MaxStringReads
    /\ rCalls' = rCalls + 1
    /\ rFn' = "read_wstring"
    /\ rAddr' = addr
    /\ LET out == read_wstring_loop(addr, 0, <<>>)
       IN  /\ rpc' = IF out.ok THEN "done" ELSE "raised"
           /\ rret' = IF out.ok THEN <<decode_utf16(out.val)>> ELSE <<>>
           /\ rerr' = out.err
           /\ rChunks' = out.chunks
    /\ UNCHANGED rMem
    /\ UNCHANGED notString

NextString ==
    \/ \E addr \in 0..1 : read_string(addr)
    \/ \E addr \in 0..1 : read_wstring(addr)

(***************************************************************************)
(* Claims about the string reads                                           *)
(***************************************************************************)
\* the mapped bytes from addr on
MemFrom(addr) == SubSeq(rMem, addr + 1, Len(rMem))

\* whether the string at addr has its terminator in mapped memory
HasTerminator(fn, addr) ==
    IF fn = "read_string" THEN IndexOf(MemFrom(addr), 0) # 0
    ELSE IndexOf(utf16_chars(MemFrom(addr)), <<0, 0>>) # 0

\* C14 (as claimed): a string whose terminator is mapped is returned by
\* read_string and read_wstring even when the bytes after the terminator are
\* not readable.
C14_TailTolerated ==
    (rFn # "none" /\ HasTerminator(rFn, rAddr)) => rpc = "done"

\* the code units stored from addr up to the first zero pair at an even offset
StoredUnits(addr) ==
    LET b == MemFrom(addr)
        idx == IndexOf(utf16_chars(b), <<0, 0>>)
    IN  utf16le(SubSeq(b, 1, 2 * (idx - 1)))

\* C15 (as claimed): what read_wstring returns is the sequence of the
\* UTF-16LE code units stored from addr up to, and excluding, the first zero
\* pair at an even offset.
C15_WStringExact ==
    (rFn = "read_wstring" /\ rpc = "done") => rret = <<StoredUnits(rAddr)>>

(***************************************************************************)
(* Cached property                                                         *)
(***************************************************************************)
\* the values of owner: None, or the process object with a pid that the n-th
\* run of the body took from the process list
NoneValue == [none |-> TRUE, pid |-> 0, run |-> 0]
ProcessObject(pid, n) == [none |-> FALSE, pid |-> pid, run |-> n]

InitCachedState ==
    /\ oProcs = <<>>
    /\ oAttr = <<>>
    /\ oRet = <<>>
    /\ oErr = "none"
    /\ oComputes = 0
    /\ oFirst = <<>>
    /\ oAccesses = 0

InitCached ==
    /\ oPid \in 1..MaxId
    /\ InitCachedState

IdleCached ==
    /\ oPid = 1
    /\ InitCachedState

\* WinThread.owner (the function under the decorator), run number n, on the
\* process list procs: the attribute it leaves and what it returns or raises
owner(attr, procs, procsOk, n) ==
    IF attr # <<>>
    THEN [attr |-> attr, ok |-> TRUE, val |-> attr[1], err |-> "none"]
    ELSE IF ~procsOk
    THEN [attr |-> attr, ok |-> FALSE, val |-> NoneValue, err |-> "Kernel32Error"]
    ELSE IF \E i \in DOMAIN procs : procs[i] = oPid
    THEN [attr |-> <<ProcessObject(oPid, n)>>, ok |-> TRUE,
          val |-> ProcessObject(oPid, n), err |-> "none"]
    ELSE [attr |-> attr, ok |-> TRUE, val |-> NoneValue, err |-> "none"]

\* getattr(self, cache_name) never finds the attribute
HasCacheNever(attr) == FALSE

\* getattr(self, cache_name) does not raise AttributeError
HasCache(attr) == attr # <<>>

\* fixedpropety: prop(self) for the property owner. The attribute is returned
\* when set; otherwise f(self) runs and setattr stores what it returns; when
\* it raises, setattr is not reached.
fixedpropety_owner(procs, procsOk) ==
    /\ oAccesses < MaxPebAccess
    /\ oAccesses' = oAccesses + 1
    /\ IF HasCache(oAttr)
       THEN /\ oRet' = oAttr
            /\ oErr' = "none"
            /\ UNCHANGED <<oAttr, oComputes, oFirst, oProcs>>
       ELSE LET f == owner(<<>>, procs, procsOk, oComputes + 1)
            IN  /\ oComputes' = oComputes + 1
                /\ oProcs' = IF procsOk THEN procs ELSE oProcs
                /\ IF f.ok
                   THEN /\ oAttr' = <<f.val>>
                        /\ oRet' = <<f.val>>
                        /\ oErr' = "none"
                        /\ oFirst' = IF oFirst = <<>> THEN <<f.val>> ELSE oFirst
                   ELSE /\ oAttr' = f.attr
                        /\ oRet' = <<>>
                        /\ oErr' = f.err
                        /\ UNCHANGED oFirst
    /\ UNCHANGED oPid
    /\ UNCHANGED notCached

NextCached ==
    \E procs \in Snapshots, procsOk \in BOOLEAN : fixedpropety_owner(procs, procsOk)

(***************************************************************************)
(* Claims about the cached property                                        *)
(***************************************************************************)
\* C19: the attribute of a cached property is set exactly when a computation
\* has returned, and it holds the value the first such computation returned;
\* once it is set, an access returns it, does not run the computation and
\* does not change it; an access whose computation raises stores nothing,
\* and an access with nothing stored runs the computation.
C19_CachedOnce ==
    /\ [](oAttr = oFirst)
    /\ [](oErr # "none" => oRet = <<>>)
    /\ [][oAttr # <<>> =>
             /\ oAttr' = oAttr
             /\ oComputes' = oComputes
             /\ oRet' = oAttr
             /\ oErr' = "none"]_ovars
    /\ [][oAttr = <<>> => oComputes' = oComputes + 1]_ovars
    /\ [][oErr' # "none" => oAttr' = <<>>]_ovars

C19_Witness ==
    /\ oAccesses > 2
    /\ oComputes = 2
    /\ oAttr # <<>>
    /\ oAttr[1].run = 2
    /\ oRet = oAttr

(***************************************************************************)
(* The handle property read by several controller threads                  *)
(***************************************************************************)
Threads == 1..MaxThreads

InitShared ==
    /\ cAttr = <<>>
    /\ cpc = [t \in Threads |-> "idle"]
    /\ cLocal = [t \in Threads |-> 0]
    /\ cRet = [t \in Threads |-> <<>>]
    /\ cErr = [t \in Threads |-> "none"]
    /\ cOpened = {}
    /\ cReads = [t \in Threads |-> 0]

IdleShared == InitShared

\* thread t starts a read of the property: 'if hasattr(self, "_handle")'
handle_test(t) ==
    /\ cpc[t] = "idle"
    /\ cReads[t] < MaxThreadReads
    /\ cReads' = [cReads EXCEPT ![t] = @ + 1]
    /\ cpc' = [cpc EXCEPT ![t] = IF cAttr # <<>> THEN "return" ELSE "open"]
    /\ cRet' = [cRet EXCEPT ![t] = <<>>]
    /\ cErr' = [cErr EXCEPT ![t] = "none"]
    /\ UNCHANGED <<cAttr, cLocal, cOpened>>
    /\ UNCHANGED notShared

\* thread t runs self._get_handle(): the OS opens a new handle, or the thunk
\* raises Kernel32Error and the read ends
handle_get_handle(t, openOk) ==
    /\ cpc[t] = "open"
    /\ IF openOk
       THEN /\ cLocal' = [cLocal EXCEPT ![t] = Cardinality(cOpened) + 1]
            /\ cOpened' = cOpened \cup {Cardinality(cOpened) + 1}
            /\ cpc' = [cpc EXCEPT ![t] = "store"]
            /\ UNCHANGED cErr
       ELSE /\ cErr' = [cErr EXCEPT ![t] = "Kernel32Error"]
            /\ cpc' = [cpc EXCEPT ![t] = "idle"]
            /\ UNCHANGED <<cLocal, cOpened>>
    /\ UNCHANGED <<cAttr, cRet, cReads>>
    /\ UNCHANGED notShared

\* thread t runs the assignment 'self._handle = ...'
handle_store(t) ==
    /\ cpc[t] = "store"
    /\ cAttr' = <<cLocal[t]>>
    /\ cpc' = [cpc EXCEPT ![t] = "return"]
    /\ UNCHANGED <<cLocal, cRet, cErr, cOpened, cReads>>
    /\ UNCHANGED notShared

\* thread t runs 'return self._handle'
handle_return(t) ==
    /\ cpc[t] = "return"
    /\ cRet' = [cRet EXCEPT ![t] = cAttr]
    /\ cpc' = [cpc EXCEPT ![t] = "idle"]
    /\ UNCHANGED <<cAttr, cLocal, cErr, cOpened, cReads>>
    /\ UNCHANGED notShared

NextShared ==
    \/ \E t \in Threads : handle_test(t)
    \/ \E t \in Threads, openOk \in BOOLEAN : handle_get_handle(t, openOk)
    \/ \E t \in Threads : handle_store(t)
    \/ \E t \in Threads : handle_return(t)

(***************************************************************************)
(* Claims about the handle property read by several threads                *)
(***************************************************************************)
\* C21 (as claimed): under every interleaving of the reads of two threads at
\* most one handle is opened for the object, and every opened handle is the
\* one the object stores, or is about to be stored by the thread that opened
\* it into an object that stores none.
C21_SingleOpen ==
    /\ Cardinality(cOpened) <= 1
    /\ \A h \in cOpened :
          \/ cAttr = <<h>>
          \/ cAttr = <<>> /\ \E t \in Threads : cpc[t] = "store" /\ cLocal[t] = h

(***************************************************************************)
(* Specifications: one per part of the library                             *)
(***************************************************************************)
\* the handle life cycle
Init == InitHandle /\ IdleMem /\ IdlePeb /\ IdleAlloc /\ IdleEnum /\ IdlePebAddr /\ IdleFromHandle /\ IdleSetContext /\ IdleSyswow /\ IdleString /\ IdleCached /\ IdleShared

Next == NextHandle

Spec == Init /\ [][Next]_vars

StartMem == InitMem /\ IdleHandle /\ IdlePeb /\ IdleAlloc /\ IdleEnum /\ IdlePebAddr /\ IdleFromHandle /\ IdleSetContext /\ IdleSyswow /\ IdleString /\ IdleCached /\ IdleShared

\* the consumer of an enumeration keeps asking for the next region
SpecMem == StartMem /\ [][NextMem]_vars /\ WF_vars(memory_state_next)

StartPeb == InitPeb /\ IdleHandle /\ IdleMem /\ IdleAlloc /\ IdleEnum /\ IdlePebAddr /\ IdleFromHandle /\ IdleSetContext /\ IdleSyswow /\ IdleString /\ IdleCached /\ IdleShared

\* a walk that has begun goes on: the loop is not interrupted
SpecPeb == StartPeb /\ [][NextPeb]_vars /\ WF_vars(modules_step)

StartAlloc == InitAlloc /\ IdleHandle /\ IdleMem /\ IdlePeb /\ IdleEnum /\ IdlePebAddr /\ IdleFromHandle /\ IdleSetContext /\ IdleSyswow /\ IdleString /\ IdleCached /\ IdleShared

SpecAlloc == StartAlloc /\ [][NextAlloc]_vars

StartEnum == InitEnum /\ IdleHandle /\ IdleMem /\ IdlePeb /\ IdleAlloc /\ IdlePebAddr /\ IdleFromHandle /\ IdleSetContext /\ IdleSyswow /\ IdleString /\ IdleCached /\ IdleShared

SpecEnum == StartEnum /\ [][NextEnum]_vars

StartPebAddr == InitPebAddr /\ IdleHandle /\ IdleMem /\ IdlePeb /\ IdleAlloc /\ IdleEnum /\ IdleFromHandle /\ IdleSetContext /\ IdleSyswow /\ IdleString /\ IdleCached /\ IdleShared

SpecPebAddr == StartPebAddr /\ [][NextPebAddr]_vars

StartFromHandle == InitFromHandle /\ IdleHandle /\ IdleMem /\ IdlePeb /\ IdleAlloc /\ IdleEnum /\ IdlePebAddr /\ IdleSetContext /\ IdleSyswow /\ IdleString /\ IdleCached /\ IdleShared

SpecFromHandle == StartFromHandle /\ [][NextFromHandle]_vars

StartSetContext == InitSetContext /\ IdleHandle /\ IdleMem /\ IdlePeb /\ IdleAlloc /\ IdleEnum /\ IdlePebAddr /\ IdleFromHandle /\ IdleSyswow /\ IdleString /\ IdleCached /\ IdleShared

SpecSetContext == StartSetContext /\ [][NextSetContext]_vars

StartSyswow == InitSyswow /\ IdleHandle /\ IdleMem /\ IdlePeb /\ IdleAlloc /\ IdleEnum /\ IdlePebAddr /\ IdleFromHandle /\ IdleSetContext /\ IdleString /\ IdleCached /\ IdleShared

SpecSyswow == StartSyswow /\ [][NextSyswow]_vars

StartString == InitString /\ IdleHandle /\ IdleMem /\ IdlePeb /\ IdleAlloc /\ IdleEnum /\ IdlePebAddr /\ IdleFromHandle /\ IdleSetContext /\ IdleSyswow /\ IdleCached /\ IdleShared

SpecString == StartString /\ [][NextString]_vars

StartCached == InitCached /\ IdleHandle /\ IdleMem /\ IdlePeb /\ IdleAlloc /\ IdleEnum /\ IdlePebAddr /\ IdleFromHandle /\ IdleSetContext /\ IdleSyswow /\ IdleString /\ IdleShared

SpecCached == StartCached /\ [][NextCached]_vars

StartShared == InitShared /\ IdleHandle /\ IdleMem /\ IdlePeb /\ IdleAlloc /\ IdleEnum /\ IdlePebAddr /\ IdleFromHandle /\ IdleSetContext /\ IdleSyswow /\ IdleString /\ IdleCached

SpecShared == StartShared /\ [][NextShared]_vars

====
